---- MODULE Spec2Model ----
(***************************************************************************)
(* The Ceph automation modules of ansible-modules-extras as a state        *)
(* machine.  The external cluster (pools, cache tier, images, mappings) is *)
(* the only persistent state; an invocation of a module is a process that  *)
(* walks through main(), one external call per step.                       *)
(*                                                                         *)
(* A behaviour follows the invocations of one module (kind); the parts of  *)
(* the cluster that module neither reads nor writes keep their initial     *)
(* value.                                                                  *)
(***************************************************************************)
EXTENDS Integers, Sequences, FiniteSets, TLC

VARIABLES kind, pools, tier, images, mapped, inv, first

vars == <<kind, pools, tier, images, mapped, inv, first>>

\* ------------------------------------------------------------------ bounds
\* largest placement-group count of a pool or of a request
MaxPg == 3
\* largest image size, in megabytes
MaxSizeMB == 2

\* ------------------------------------------------------------ value spaces
NONE == "none"
Kinds == {"pool", "pool_cli", "tier", "rbd", "rbd_map", "ceph", "ceph_cli"}
Procs == {"a", "b"}
\* the process whose invocations run one after the other
SeqProcs == {"a"}
PoolNames == {"cold", "hot"}
DEFAULT_POOL == "rbd"
AllPools == PoolNames \cup {DEFAULT_POOL}
ImageNames == {"rbd1", "rbd2"}
ImagePools == {DEFAULT_POOL, "cold"}
CacheModes == {"writeback", "readonly"}
\* bytes per megabyte: size * 1024 * 1024
MB == 1048576

Absent == [pg |-> 0, pgp |-> 0]
\* a pool's pgp_num never exceeds its pg_num
PoolVals == {Absent} \cup {v \in [pg : 1..MaxPg, pgp : 1..MaxPg] : v.pgp <= v.pg}
Exists(ps, n) == ps[n].pg > 0
\* cluster.list_pools(): the names of the pools that exist
list_pools(ps) == {n \in AllPools : Exists(ps, n)}
\* the poolnum osd lspools reports for a pool
PoolNum(n) == CASE n = "cold" -> "1" [] n = "hot" -> "2" [] OTHER -> "0"

\* A diagnostic text: what was said (t) about what (a, b, n).
Text(t, a, b, n) == [t |-> t, a |-> a, b |-> b, n |-> n]
NoText == Text("", "", "", 0)
OtherText == Text("other", "", "", 0)

\* ------------------------------------------------------- the result document
Put(r, k, v) == (k :> v) @@ r
Has(r, k) == k \in DOMAIN r

\* An external call an invocation has issued.
Call(cmd, a, b, n) == [cmd |-> cmd, a |-> a, b |-> b, n |-> n,
                       rc |-> 0, text |-> NoText]
\* the call with the status it returned and the text the module reads of it
Answered(c, rc, text) == [c EXCEPT !.rc = rc, !.text = text]
MutatingCmds == {"osd pool create", "osd pool set", "osd pool delete",
                 "tier add", "tier cache-mode", "tier set-overlay",
                 "tier remove-overlay", "tier remove",
                 "rbd create", "rbd resize", "rbd resize --allow-shrink",
                 "rbd rm", "rbd map", "rbd unmap"}

\* module.params: every module's parameters in one record, unset = NONE / 0.
NoParams == [state |-> "present", name |-> NONE, pgnum |-> 0, pgpnum |-> 0,
             type |-> "replicated", ruleset |-> NONE,
             storage_pool |-> NONE, cache_pool |-> NONE,
             cache_mode |-> "writeback", set_overlay |-> FALSE,
             force_nonempty |-> FALSE,
             pool |-> NONE, size |-> 0, allow_shrink |-> FALSE,
             cmd |-> NONE]

Idle == [pc |-> "idle", p |-> NoParams, handle |-> NONE, seen |-> {},
         var |-> NONE, changed |-> FALSE, result |-> <<>>, calls |-> <<>>,
         outcome |-> NONE, msg |-> NONE, clean |-> TRUE, fresh |-> FALSE,
         observed |-> FALSE, was |-> Absent, was_size |-> 0]

\* ------------------------------------------------------- leaving main()
Issue(i, c) == [i EXCEPT !.calls = Append(@, c)]
\* module.fail_json(msg=...): a failure result; raises SystemExit
fail_json(i, msg) == [i EXCEPT !.pc = "done", !.outcome = "fail", !.msg = msg]
\* an uncaught exception (KeyError, NameError, ...): no result document
Raise(i, exc) == [i EXCEPT !.pc = "done", !.outcome = "crash", !.msg = exc]
\* module.exit_json(**result): the normal result
exit_json(i) == [i EXCEPT !.pc = "done", !.outcome = "exit"]
\* cluster_handle.shutdown() in a finally clause, or the exit of a with block
shutdown(i) == [i EXCEPT !.handle = "released"]
\* "Error: {0} {1}".format(rc, errno.errorcode[rc]): errno.errorcode holds
\* the positive error numbers only, any other key raises KeyError
ErrnoFail(i, rc) == IF rc > 0 THEN fail_json(i, "Error: rc errorcode")
                    ELSE Raise(i, "KeyError")
\* A response of the monitor / command line tool: status, and whether the
\* diagnostic text is the tool's usual one (conf) or altered by the context.
JsonResps == {[rc |-> 0, conf |-> TRUE], [rc |-> 0, conf |-> FALSE]}
                \cup {[rc |-> e, conf |-> FALSE] : e \in {-2, 2}}
Noted(i, r) == [i EXCEPT !.clean = @ /\ r.rc = 0 /\ r.conf]

\* ----------------------------------------- cloud/ceph/ceph_osd_pool.py
PoolParams == {[NoParams EXCEPT !.state = s, !.name = n, !.pgnum = g,
                                !.pgpnum = q, !.type = t, !.ruleset = r] :
                 s \in {"present", "absent"}, n \in {"cold"},
                 g \in 0..MaxPg, q \in 0..MaxPg,
                 t \in {"replicated", "erasure"}, r \in {NONE, "ssd"}}

\* endd, result['end'], result['delta'], module.exit_json(**result); finally
PoolFinish(i) ==
    shutdown(exit_json([i EXCEPT !.result = Put(Put(@, "end", "t"), "delta", "t")]))

\* osd_pool_create up to its json_command
osd_pool_create_check(i) ==
    IF i.p.pgnum = 0
      THEN shutdown(fail_json(i, "pgnum is required when state=present"))
    ELSE IF i.p.ruleset # NONE /\ i.p.pgpnum = 0
      THEN shutdown(fail_json(i, "pgpnum is required when ruleset specified"))
    ELSE IF i.p.type = "erasure" /\ i.p.pgpnum = 0
      THEN shutdown(fail_json(i, "pgpnum is required when type=erasure"))
    ELSE [i EXCEPT !.pc = "create"]

\* osd_pool_modify from "pgp_num = module.params['pgpnum']" on
osd_pool_modify_pgp(i) ==
    IF i.p.pgpnum # 0 THEN [i EXCEPT !.pc = "get", !.var = "pgp_num"]
    ELSE PoolFinish(i)

\* osd_pool_modify from its first line
osd_pool_modify(i) ==
    IF i.p.pgnum # 0 THEN [i EXCEPT !.pc = "get", !.var = "pg_num"]
    ELSE osd_pool_modify_pgp(i)

\* what follows the comparison or the set of one variable
AfterVar(i) == IF i.var = "pg_num" THEN osd_pool_modify_pgp(i) ELSE PoolFinish(i)

\* PoolDecide with the membership test of state=present inverted
PoolDecide_inverted(i) ==
    IF i.p.state = "present"
      THEN IF i.p.name \in i.seen THEN osd_pool_create_check(i)
           ELSE osd_pool_modify(i)
    ELSE IF i.p.name \in i.seen THEN [i EXCEPT !.pc = "delete"]
         ELSE PoolFinish(i)

\* the decision of main() once the pools are listed
PoolDecide(i) ==
    IF i.p.state = "present"
      THEN IF i.p.name \notin i.seen THEN osd_pool_create_check(i)
           ELSE osd_pool_modify(i)
    ELSE IF i.p.name \in i.seen THEN [i EXCEPT !.pc = "delete"]
         ELSE PoolFinish(i)

\* the monitor makes no pool whose pgp_num exceeds its pg_num, and sets no
\* pgp_num above the pool's pg_num: such a request is answered non-zero
MonAccepts(ps, n, var, g, q) ==
    CASE var = "create" -> Exists(ps, n) \/ q <= g
      [] var = "pgp_num" -> Exists(ps, n) /\ q <= ps[n].pg
      [] OTHER -> Exists(ps, n)
\* the monitor's answer to "osd pool create"
MonCreateOuts(ps, n, r) ==
    IF r.rc # 0 THEN Text("error", n, "", r.rc)
    ELSE IF Exists(ps, n) THEN Text("already exists", n, "", 0)
    ELSE IF r.conf THEN Text("created", n, "", 0) ELSE OtherText
MonCreate(ps, n, g, q, r) ==
    IF r.rc = 0 /\ ~Exists(ps, n)
      THEN [ps EXCEPT ![n] = [pg |-> g, pgp |-> IF q # 0 THEN q ELSE g]]
    ELSE ps
\* the monitor's answer to "osd pool delete"
MonDeleteOuts(ps, n, r) ==
    IF r.rc # 0 THEN Text("error", n, "", r.rc)
    ELSE IF ~Exists(ps, n) THEN Text("does not exist", n, "", 0)
    ELSE IF r.conf THEN Text("removed", n, "", 0) ELSE OtherText
MonDelete(ps, n, r) == IF r.rc = 0 THEN [ps EXCEPT ![n] = Absent] ELSE ps
\* the monitor's answer to "osd pool set": it names the pool by number and
\* echoes the value
MonSetOuts(n, var, val, r) ==
    IF r.rc # 0 THEN Text("error", n, "", r.rc)
    ELSE IF r.conf THEN Text("set pool", PoolNum(n), var, val) ELSE OtherText
MonSet(ps, n, var, val, r) ==
    IF r.rc # 0 THEN ps
    ELSE IF var = "pg_num" THEN [ps EXCEPT ![n].pg = val]
    ELSE [ps EXCEPT ![n].pgp = val]
\* SetMatches comparing outs with the sentence for equality, where the value
\* the monitor echoes is left out
SetMatches_exact(poolnum, var, outs) == outs = Text("set pool", poolnum, var, 0)

\* re.match("set pool {0} {1} to \\d*".format(poolnum, var, new_val), outs):
\* the value is not part of the pattern
SetMatches(poolnum, var, outs) ==
    outs.t = "set pool" /\ outs.a = poolnum /\ outs.b = var

Step(p, i) == inv' = [inv EXCEPT ![p] = i]

\* rados.Rados(name=..., clustername=..., conffile=...) in try/except
\* rados.Error (the same lines open cloud/ceph/ceph.py)
Construct(p) ==
    /\ kind \in {"pool", "ceph"} /\ inv[p].pc = "construct"
    /\ \E ok \in BOOLEAN :
         Step(p, IF ok THEN [inv[p] EXCEPT !.handle = "open", !.pc = "connect"]
                 ELSE fail_json([inv[p] EXCEPT !.clean = FALSE],
                                "Error initializing cluster client"))
    /\ UNCHANGED <<kind, pools, tier, images, mapped, first>>

\* cluster_handle.connect(timeout=timeout) in try/except Exception: the
\* fail_json of the except clause is outside the try/finally that shuts down
Connect(p) ==
    /\ kind \in {"pool", "ceph"} /\ inv[p].pc = "connect"
    /\ \E ok \in BOOLEAN :
         Step(p, IF ok THEN [inv[p] EXCEPT !.handle = "connected",
                                            !.pc = IF kind = "pool" THEN "list" ELSE "command"]
                 ELSE fail_json([inv[p] EXCEPT !.clean = FALSE],
                                "Error connecting to cluster"))
    /\ UNCHANGED <<kind, pools, tier, images, mapped, first>>

\* pools = cluster_handle.list_pools() and the decision that follows
PoolList(p) ==
    /\ kind = "pool" /\ inv[p].pc = "list"
    /\ Step(p, PoolDecide([Issue(inv[p], Call("list_pools", "", "", 0))
                              EXCEPT !.seen = list_pools(pools), !.observed = TRUE]))
    /\ UNCHANGED <<kind, pools, tier, images, mapped, first>>

\* the json_command of osd_pool_create and what follows it
PoolCreate(p) ==
    /\ kind = "pool" /\ inv[p].pc = "create"
    /\ \E r \in JsonResps :
         LET outs == MonCreateOuts(pools, inv[p].p.name, r)
             i == Noted(Issue(inv[p], Answered(Call("osd pool create", inv[p].p.name,
                                                    inv[p].p.type, inv[p].p.pgnum), r.rc, outs)), r)
         IN /\ r.rc = 0 => MonAccepts(pools, i.p.name, "create", i.p.pgnum, i.p.pgpnum)
            /\ pools' = MonCreate(pools, i.p.name, i.p.pgnum, i.p.pgpnum, r)
            /\ Step(p, IF r.rc # 0 THEN shutdown(ErrnoFail(i, r.rc))
                       ELSE PoolFinish([i EXCEPT
                              !.changed = (Text("created", i.p.name, "", 0) = outs),
                              !.result = Put(Put(Put(@, "changed", Text("created", i.p.name, "", 0) = outs),
                                                 "outbuf", "t"), "outs", outs)]))
    /\ UNCHANGED <<kind, tier, images, mapped, first>>

\* osd_pool_get(var) and the comparison of osd_pool_modify
PoolGet(p) ==
    /\ kind = "pool" /\ inv[p].pc = "get"
    /\ \E rc \in {0, -2, 2} :
         LET i == [Issue(inv[p], Answered(Call("osd pool get", inv[p].p.name, inv[p].var, 0),
                                          rc, NoText))
                     EXCEPT !.clean = @ /\ rc = 0]
             want == IF i.var = "pg_num" THEN i.p.pgnum ELSE i.p.pgpnum
             current == IF i.var = "pg_num" THEN pools[i.p.name].pg ELSE pools[i.p.name].pgp
         IN /\ rc = 0 => Exists(pools, i.p.name)
            /\ Step(p, IF rc # 0 THEN shutdown(ErrnoFail(i, rc))
                       ELSE IF want = current THEN AfterVar(i)
                       ELSE IF want > current THEN [i EXCEPT !.pc = "lspools"]
                       ELSE shutdown(fail_json(i, "specified <= current")))
    /\ UNCHANGED <<kind, pools, tier, images, mapped, first>>

\* osd_lspools() and the search of osd_pool_set for the pool's number
PoolLs(p) ==
    /\ kind = "pool" /\ inv[p].pc = "lspools"
    /\ \E rc \in {0, -2, 2} :
         LET i == [Issue(inv[p], Answered(Call("osd lspools", "", "", 0), rc, NoText))
                     EXCEPT !.clean = @ /\ rc = 0]
         IN Step(p, IF rc # 0 THEN shutdown(ErrnoFail(i, rc))
                    ELSE IF i.p.name \in list_pools(pools) THEN [i EXCEPT !.pc = "set"]
                    ELSE shutdown(fail_json(i, "Error ENOENT: unrecognized pool")))
    /\ UNCHANGED <<kind, pools, tier, images, mapped, first>>

\* the json_command of osd_pool_set and what follows it
PoolSet(p) ==
    /\ kind = "pool" /\ inv[p].pc = "set"
    /\ \E r \in JsonResps :
         LET new_val == IF inv[p].var = "pg_num" THEN inv[p].p.pgnum ELSE inv[p].p.pgpnum
             outs == MonSetOuts(inv[p].p.name, inv[p].var, new_val, r)
             i == Noted(Issue(inv[p], Answered(Call("osd pool set", inv[p].p.name,
                                                    inv[p].var, new_val), r.rc, outs)), r)
             matched == SetMatches(PoolNum(i.p.name), i.var, outs)
         IN /\ r.rc = 0 => MonAccepts(pools, i.p.name, i.var, new_val, new_val)
            /\ pools' = MonSet(pools, i.p.name, i.var, new_val, r)
            /\ Step(p, IF r.rc # 0 THEN shutdown(fail_json(i, "outs"))
                       ELSE AfterVar([i EXCEPT !.changed = matched,
                              !.result = Put(Put(@, "changed", matched), "outs", outs)]))
    /\ UNCHANGED <<kind, tier, images, mapped, first>>

\* the json_command of osd_pool_delete and what follows it
PoolDelete(p) ==
    /\ kind = "pool" /\ inv[p].pc = "delete"
    /\ \E r \in JsonResps :
         LET outs == MonDeleteOuts(pools, inv[p].p.name, r)
             i == Noted(Issue(inv[p], Answered(Call("osd pool delete", inv[p].p.name, "", 0),
                                               r.rc, outs)), r)
         IN /\ pools' = MonDelete(pools, i.p.name, r)
            /\ Step(p, IF r.rc # 0 THEN shutdown(ErrnoFail(i, r.rc))
                       ELSE PoolFinish([i EXCEPT
                              !.changed = (Text("removed", i.p.name, "", 0) = outs),
                              !.result = Put(Put(Put(@, "changed", Text("removed", i.p.name, "", 0) = outs),
                                                 "outbuf", "t"), "outs", outs)]))
    /\ UNCHANGED <<kind, tier, images, mapped, first>>

\* --------------------------------------------- modules that shell out
\* A response of a command line tool: exit status, and whether stderr
\* carries the tool's usual confirmation (conf) or some other text.
CliResps == {[rc |-> 0, conf |-> TRUE], [rc |-> 0, conf |-> FALSE],
             [rc |-> 1, conf |-> FALSE]}

\* sh(cmd) of ceph_osd_pool.py and ceph_osd_tier.py: runs the command and
\* stores rc, cmd, stdout, stderr, start, end and delta; rc is not examined
sh(i, c, rc, out, err) ==
    [Issue(i, Answered(c, rc, err)) EXCEPT !.result =
        Put(Put(Put(Put(Put(Put(Put(@, "rc", rc), "cmd", c.cmd), "stdout", out),
                        "stderr", err), "start", "t"), "end", "t"), "delta", "t")]

\* with rados.Rados(conffile=...) as cluster: the block is entered with a
\* connected client, or the statement raises and no client is bound
WithEnter(p) ==
    /\ kind \in {"pool_cli", "tier", "rbd"} /\ inv[p].pc = "with"
    /\ \E ok \in BOOLEAN :
         Step(p, IF ok THEN [inv[p] EXCEPT !.handle = "connected", !.pc = "list"]
                 ELSE Raise([inv[p] EXCEPT !.clean = FALSE], "rados.Error"))
    /\ UNCHANGED <<kind, pools, tier, images, mapped, first>>

\* the end of the with block, result['changed'] = changed, exit_json
CliFinish(i) ==
    exit_json([shutdown(i) EXCEPT !.result = Put(@, "changed", i.changed)])

\* ------------------------------------------------ ceph/ceph_osd_pool.py
\* main() from cluster.list_pools() to the first command, if any
CliPoolDecide(i) ==
    IF i.p.state = "present"
      THEN IF i.p.name \notin i.seen
             THEN IF i.p.pgnum = 0
                    THEN shutdown(fail_json(i, "pgnum is required when state=present"))
                  ELSE IF i.p.ruleset # NONE /\ i.p.pgpnum = 0
                    THEN shutdown(fail_json(i, "pgpnum is required when ruleset specified"))
                  ELSE IF i.p.type = "erasure" /\ i.p.pgpnum = 0
                    THEN shutdown(fail_json(i, "pgpnum is required when type=erasure"))
                  ELSE [i EXCEPT !.pc = "create"]
           ELSE CliFinish(i)
    ELSE IF i.p.name \in i.seen THEN [i EXCEPT !.pc = "delete"]
         ELSE CliFinish(i)

CliPoolList(p) ==
    /\ kind = "pool_cli" /\ inv[p].pc = "list"
    /\ Step(p, CliPoolDecide([Issue(inv[p], Call("list_pools", "", "", 0))
                                 EXCEPT !.seen = list_pools(pools), !.observed = TRUE]))
    /\ UNCHANGED <<kind, pools, tier, images, mapped, first>>

\* sh('ceph osd pool create ...') and the comparison of stderr
CliPoolCreate(p) ==
    /\ kind = "pool_cli" /\ inv[p].pc = "create"
    /\ \E r \in CliResps :
         LET err == MonCreateOuts(pools, inv[p].p.name, r)
             i == Noted(sh(inv[p], Call("osd pool create", inv[p].p.name, inv[p].p.type, inv[p].p.pgnum),
                           r.rc, NoText, err), r)
         IN /\ r.rc = 0 => MonAccepts(pools, i.p.name, "create", i.p.pgnum, i.p.pgpnum)
            /\ pools' = MonCreate(pools, i.p.name, i.p.pgnum, i.p.pgpnum, r)
            /\ Step(p, CliFinish([i EXCEPT !.changed =
                                    (Text("created", i.p.name, "", 0) = i.result["stderr"])]))
    /\ UNCHANGED <<kind, tier, images, mapped, first>>

\* sh('ceph osd pool delete ...') and the comparison of stderr
CliPoolDelete(p) ==
    /\ kind = "pool_cli" /\ inv[p].pc = "delete"
    /\ \E r \in CliResps :
         LET err == MonDeleteOuts(pools, inv[p].p.name, r)
             i == Noted(sh(inv[p], Call("osd pool delete", inv[p].p.name, "", 0),
                           r.rc, NoText, err), r)
         IN /\ pools' = MonDelete(pools, i.p.name, r)
            /\ Step(p, CliFinish([i EXCEPT !.changed =
                                    (Text("removed", i.p.name, "", 0) = i.result["stderr"])]))
    /\ UNCHANGED <<kind, tier, images, mapped, first>>

\* ------------------------------------------- cloud/ceph/ceph_osd_tier.py
TierParams == {[NoParams EXCEPT !.state = s, !.storage_pool = "cold",
                                !.cache_pool = "hot", !.cache_mode = m,
                                !.set_overlay = o, !.force_nonempty = f] :
                 s \in {"present", "absent"}, m \in CacheModes,
                 o \in BOOLEAN, f \in BOOLEAN}

NoTier == [on |-> FALSE, mode |-> NONE, overlay |-> FALSE]

\* what the ceph tool prints on stderr for a tier command c: it echoes the
\* command's own arguments, and says the same whether or not the state was
\* already there ("is now (or already was)")
MonTierOuts(c, r) ==
    IF r.rc # 0 THEN Text("error", c.a, c.b, r.rc)
    ELSE IF ~r.conf THEN OtherText
    ELSE CASE c.cmd = "tier add" -> Text("is now (or already was) a tier of", c.b, c.a, 0)
           [] c.cmd = "tier cache-mode" -> Text("set cache_mode for pool", c.a, c.b, 0)
           [] c.cmd = "tier set-overlay" -> Text("overlay is now (or already was)", c.a, c.b, 0)
           [] c.cmd = "tier remove-overlay" -> Text("is now (or already was) no overlay for", c.a, "", 0)
           [] OTHER -> Text("is now (or already was) not a tier of", c.b, c.a, 0)
\* what the command does to the cluster
MonTier(t, c, r) ==
    IF r.rc # 0 THEN t
    ELSE CASE c.cmd = "tier add" -> [t EXCEPT !.on = TRUE]
           [] c.cmd = "tier cache-mode" -> IF t.on THEN [t EXCEPT !.mode = c.b] ELSE t
           [] c.cmd = "tier set-overlay" -> IF t.on THEN [t EXCEPT !.overlay = TRUE] ELSE t
           [] c.cmd = "tier remove-overlay" -> [t EXCEPT !.overlay = FALSE]
           [] OTHER -> NoTier

\* TierDecide without the test that cache_pool is among the pools
TierDecide_unchecked(i) ==
    IF i.p.storage_pool \notin i.seen
      THEN shutdown(fail_json(i, "storage_pool does not exist"))
    ELSE IF i.p.state = "present" THEN [i EXCEPT !.pc = "add"]
    ELSE [i EXCEPT !.pc = "remove-overlay"]

\* main() from cluster.list_pools() to the first command
TierDecide(i) ==
    IF i.p.storage_pool \notin i.seen
      THEN shutdown(fail_json(i, "storage_pool does not exist"))
    ELSE IF i.p.cache_pool \notin i.seen
      THEN shutdown(fail_json(i, "cache_pool does not exist"))
    ELSE IF i.p.state = "present" THEN [i EXCEPT !.pc = "add"]
    ELSE [i EXCEPT !.pc = "remove-overlay"]

TierList(p) ==
    /\ kind = "tier" /\ inv[p].pc = "list"
    /\ Step(p, TierDecide([Issue(inv[p], Call("list_pools", "", "", 0))
                              EXCEPT !.seen = list_pools(pools), !.observed = TRUE]))
    /\ UNCHANGED <<kind, pools, tier, images, mapped, first>>

\* The command of the step the invocation is at, and the stderr main()
\* expects of it.
TierCmd(i) ==
    CASE i.pc = "add" -> Call("tier add", i.p.storage_pool, i.p.cache_pool,
                              IF i.p.force_nonempty THEN 1 ELSE 0)
      [] i.pc = "cache-mode" -> Call("tier cache-mode", i.p.cache_pool, i.p.cache_mode, 0)
      [] i.pc = "set-overlay" -> Call("tier set-overlay", i.p.storage_pool, i.p.cache_pool, 0)
      [] i.pc = "unset-overlay" -> Call("tier remove-overlay", i.p.cache_pool, "", 0)
      [] i.pc = "remove-overlay" -> Call("tier remove-overlay", i.p.cache_pool, "", 0)
      [] OTHER -> Call("tier remove", i.p.storage_pool, i.p.cache_pool, 0)
expected_stderr(i) ==
    CASE i.pc = "add" -> Text("is now (or already was) a tier of", i.p.cache_pool, i.p.storage_pool, 0)
      [] i.pc = "cache-mode" -> Text("set cache_mode for pool", i.p.cache_pool, i.p.cache_mode, 0)
      [] i.pc = "set-overlay" -> Text("overlay is now (or already was)", i.p.storage_pool, i.p.cache_pool, 0)
      [] i.pc = "unset-overlay" -> Text("is now (or already was) no overlay for", i.p.cache_pool, "", 0)
      [] i.pc = "remove-overlay" -> Text("is now (or already was) no overlay for", i.p.storage_pool, "", 0)
      [] OTHER -> Text("is now (or already was) not a tier of", i.p.cache_pool, i.p.storage_pool, 0)

\* TierNext with the cache-mode step going on to the overlay whatever its
\* stderr was
TierNext_ungated(i, changed) ==
    CASE i.pc = "add" -> IF changed THEN "cache-mode" ELSE "end"
      [] i.pc = "cache-mode" -> IF i.p.set_overlay THEN "set-overlay"
                                ELSE "unset-overlay"
      [] i.pc = "remove-overlay" -> "remove"
      [] OTHER -> "end"

\* TierNext that detaches the tier again when the cache-mode was not
\* confirmed
TierNext_rollback(i, changed) ==
    CASE i.pc = "add" -> IF changed THEN "cache-mode" ELSE "end"
      [] i.pc = "cache-mode" -> IF ~changed THEN "remove"
                                ELSE IF i.p.set_overlay THEN "set-overlay"
                                ELSE "unset-overlay"
      [] i.pc = "remove-overlay" -> "remove"
      [] OTHER -> "end"

\* Where main() goes after a step whose stderr compared as `changed`.
TierNext(i, changed) ==
    CASE i.pc = "add" -> IF changed THEN "cache-mode" ELSE "end"
      [] i.pc = "cache-mode" -> IF ~changed THEN "end"
                                ELSE IF i.p.set_overlay THEN "set-overlay"
                                ELSE "unset-overlay"
      [] i.pc = "remove-overlay" -> "remove"
      [] OTHER -> "end"

\* one sh(...) of main(), the comparison after it and the branch taken
TierStep(p, at) ==
    /\ kind = "tier" /\ inv[p].pc = at
    /\ \E r \in CliResps :
         LET c == TierCmd(inv[p])
             i == Noted(sh(inv[p], c, r.rc, NoText, MonTierOuts(c, r)), r)
             changed == expected_stderr(inv[p]) = i.result["stderr"]
             next == TierNext(inv[p], changed)
             j == [i EXCEPT !.changed = changed]
         IN /\ tier' = MonTier(tier, c, r)
            /\ Step(p, IF next = "end" THEN CliFinish(j) ELSE [j EXCEPT !.pc = next])
    /\ UNCHANGED <<kind, pools, images, mapped, first>>

\* sh(cmd.format(storage_pool, cache_pool)) of 'ceph osd tier add'
TierAdd(p) == TierStep(p, "add")
\* sh('ceph osd tier cache-mode ...'), run when the add was confirmed
TierCacheMode(p) == TierStep(p, "cache-mode")
\* sh('ceph osd tier set-overlay ...'), run when set_overlay is set
TierSetOverlay(p) == TierStep(p, "set-overlay")
\* sh('ceph osd tier remove-overlay ...') of state=present without set_overlay
TierUnsetOverlay(p) == TierStep(p, "unset-overlay")
\* sh('ceph osd tier remove-overlay ...') of state=absent
TierRemoveOverlay(p) == TierStep(p, "remove-overlay")
\* sh('ceph osd tier remove ...') of state=absent
TierRemove(p) == TierStep(p, "remove")

\* ------------------------------------------------------ ceph/ceph_rbd.py
RbdName == "rbd1"
RbdParams == {[NoParams EXCEPT !.state = s, !.name = RbdName, !.pool = l,
                               !.size = z, !.allow_shrink = a] :
                s \in {"present", "absent"}, l \in {NONE, "cold"},
                z \in 0..MaxSizeMB, a \in BOOLEAN}

\* pool_for_open_ioctx = pool if pool else DEFAULT_POOL
pool_for_open_ioctx(prm) == IF prm.pool # NONE THEN prm.pool ELSE DEFAULT_POOL
\* the pool an rbd command acts on: --pool when given, else the tool's default
CmdPool(c) == IF c.b # NONE THEN c.b ELSE DEFAULT_POOL

\* A response of the rbd tool: exit status, and the stream on which it
\* reports its progress ("\rResizing image: 100% complete...done.").
RbdResps == {[rc |-> 0, progress |-> w] : w \in {"stderr", "stdout", NONE}}
              \cup {[rc |-> 1, progress |-> NONE]}

\* sh(cmd) of ceph_rbd.py and ceph_rbd_map.py: result['stderr'] is set from
\* out, the command's standard output
sh_out(i, c, rc, out, err) ==
    [Issue(i, Answered(c, rc, out)) EXCEPT !.result =
        Put(Put(Put(Put(Put(Put(Put(@, "rc", rc), "cmd", c.cmd), "stdout", out),
                        "stderr", out), "start", "t"), "end", "t"), "delta", "t")]

\* the end of both with blocks, result['changed'] = changed, exit_json
RbdFinish(i) == CliFinish(i)

\* RbdDecide without the test that refuses to shrink
RbdDecide_shrinks(i, exists, current_size) ==
    IF i.p.state = "present"
      THEN IF i.p.size = 0
             THEN shutdown(fail_json(i, "size is required when state=present"))
           ELSE IF ~exists THEN [i EXCEPT !.pc = "create"]
           ELSE IF i.p.size * MB # current_size THEN [i EXCEPT !.pc = "resize"]
           ELSE CliFinish(i)
    ELSE IF exists
      THEN IF i.p.pool # NONE THEN shutdown(Raise(i, "UnboundLocalError: cmd"))
           ELSE [i EXCEPT !.pc = "rm"]
    ELSE CliFinish(i)

\* main() from open_ioctx to the first command: r.list(ioctx), and for an
\* existing image its current size
RbdDecide(i, exists, current_size) ==
    IF i.p.state = "present"
      THEN IF i.p.size = 0
             THEN shutdown(fail_json(i, "size is required when state=present"))
           ELSE IF ~exists THEN [i EXCEPT !.pc = "create"]
           ELSE IF i.p.size * MB < current_size /\ ~i.p.allow_shrink
             THEN shutdown(fail_json(i, "shrinking an image is only allowed with allow_shrink"))
           ELSE IF i.p.size * MB # current_size THEN [i EXCEPT !.pc = "resize"]
           ELSE RbdFinish(i)
    ELSE IF exists
      THEN IF i.p.pool # NONE THEN shutdown(Raise(i, "UnboundLocalError: cmd"))
           ELSE [i EXCEPT !.pc = "rm"]
    ELSE RbdFinish(i)

RbdList(p) ==
    /\ kind = "rbd" /\ inv[p].pc = "list"
    /\ LET io == pool_for_open_ioctx(inv[p].p)
           i == Issue(inv[p], Call("rbd list", RbdName, io, 0))
       IN Step(p, IF ~Exists(pools, io) THEN shutdown(Raise(i, "rados.ObjectNotFound"))
                  ELSE RbdDecide([i EXCEPT !.seen = IF images[io] > 0 THEN {RbdName} ELSE {},
                                           !.observed = TRUE],
                                 images[io] > 0, images[io]))
    /\ UNCHANGED <<kind, pools, tier, images, mapped, first>>

\* the text the rbd tool writes to a stream
RbdOut(r, stream, what) ==
    IF r.rc # 0 THEN Text("error", "", "", r.rc)
    ELSE IF r.progress = stream THEN Text(what, "100% complete...done.", "", 0)
    ELSE NoText

\* sh("rbd create ...") and changed = name in r.list(ioctx)
RbdCreate(p) ==
    /\ kind = "rbd" /\ inv[p].pc = "create"
    /\ \E rc \in {0, 1} :
         LET c == Call("rbd create", inv[p].p.name, inv[p].p.pool, inv[p].p.size)
             r == [rc |-> rc, progress |-> NONE]
             i == [sh_out(inv[p], c, rc, RbdOut(r, "stdout", ""), RbdOut(r, "stderr", ""))
                     EXCEPT !.clean = @ /\ rc = 0]
             made == rc = 0 /\ Exists(pools, CmdPool(c)) /\ images[CmdPool(c)] = 0
             after == IF made THEN [images EXCEPT ![CmdPool(c)] = i.p.size * MB] ELSE images
         IN /\ images' = after
            /\ Step(p, RbdFinish([i EXCEPT !.changed = after[pool_for_open_ioctx(i.p)] > 0]))
    /\ UNCHANGED <<kind, pools, tier, mapped, first>>

\* What follows sh() of a resize or a remove: when the stored text starts
\* with the progress line, `changed = stderr == ...` reads a name that is
\* not defined.
RbdAfter(i, what) ==
    IF i.result["stderr"].t = what THEN shutdown(Raise(i, "NameError: stderr"))
    ELSE RbdFinish(i)

\* sh("rbd resize ...") and what follows
RbdResize(p) ==
    /\ kind = "rbd" /\ inv[p].pc = "resize"
    /\ \E r \in RbdResps :
         LET c == Call(IF inv[p].p.allow_shrink THEN "rbd resize --allow-shrink"
                       ELSE "rbd resize", inv[p].p.name, inv[p].p.pool, inv[p].p.size)
             i == [sh_out(inv[p], c, r.rc, RbdOut(r, "stdout", "Resizing image"),
                          RbdOut(r, "stderr", "Resizing image"))
                     EXCEPT !.clean = @ /\ r.rc = 0 /\ r.progress # NONE]
         IN /\ images' = IF r.rc = 0 /\ images[CmdPool(c)] > 0
                           THEN [images EXCEPT ![CmdPool(c)] = i.p.size * MB]
                         ELSE images
            /\ Step(p, RbdAfter(i, "Resizing image"))
    /\ UNCHANGED <<kind, pools, tier, mapped, first>>

\* sh("rbd rm " + name) and what follows; the command names no pool
RbdRemove(p) ==
    /\ kind = "rbd" /\ inv[p].pc = "rm"
    /\ \E r \in RbdResps :
         LET c == Call("rbd rm", inv[p].p.name, NONE, 0)
             i == [sh_out(inv[p], c, r.rc, RbdOut(r, "stdout", "Removing image"),
                          RbdOut(r, "stderr", "Removing image"))
                     EXCEPT !.clean = @ /\ r.rc = 0 /\ r.progress # NONE]
         IN /\ images' = IF r.rc = 0 THEN [images EXCEPT ![CmdPool(c)] = 0] ELSE images
            /\ Step(p, RbdAfter(i, "Removing image"))
    /\ UNCHANGED <<kind, pools, tier, mapped, first>>

\* -------------------------------------------------- ceph/ceph_rbd_map.py
MapParams == {[NoParams EXCEPT !.state = s, !.name = n, !.pool = l] :
                s \in {"present", "absent"}, n \in ImageNames, l \in {NONE, "cold"}}

\* result['changed'] = changed, exit_json: the module opens no handle
MapFinish(i) == exit_json([i EXCEPT !.result = Put(@, "changed", i.changed)])

\* MapDecide that maps whenever state=present, mapped already or not
MapDecide_remaps(i) ==
    IF i.p.state = "present" THEN [i EXCEPT !.pc = "map"]
    ELSE IF i.p.name \in i.seen THEN [i EXCEPT !.pc = "unmap"]
    ELSE MapFinish(i)

\* the decision of main() on the mapping table it observed
MapDecide(i) ==
    IF i.p.name \in i.seen
      THEN IF i.p.state = "absent" THEN [i EXCEPT !.pc = "unmap"]
           ELSE MapFinish(i)
    ELSE IF i.p.state = "present" THEN [i EXCEPT !.pc = "map"]
    ELSE MapFinish(i)

\* name_to_device_mappings = list_mappings() and the decision on it;
\* json.loads raises when the output of rbd showmapped is no document
MapList(p) ==
    /\ kind = "rbd_map" /\ inv[p].pc = "showmapped"
    /\ \E ok \in BOOLEAN :
         LET i == [Issue(inv[p], Call("rbd showmapped", "", "", 0))
                     EXCEPT !.seen = mapped, !.clean = @ /\ ok, !.observed = ok]
         IN Step(p, IF ~ok THEN Raise(i, "ValueError") ELSE MapDecide(i))
    /\ UNCHANGED <<kind, pools, tier, images, mapped, first>>

\* sh("rbd map " + name [+ " --pool " + pool])
MapRun(p) ==
    /\ kind = "rbd_map" /\ inv[p].pc = "map"
    /\ \E rc \in {0, 1} :
         /\ mapped' = IF rc = 0 THEN mapped \cup {inv[p].p.name} ELSE mapped
         /\ Step(p, [sh_out(inv[p], Call("rbd map", inv[p].p.name, inv[p].p.pool, 0),
                            rc, NoText, NoText)
                       EXCEPT !.pc = "relist", !.clean = @ /\ rc = 0])
    /\ UNCHANGED <<kind, pools, tier, images, first>>

\* sh("rbd unmap " + name_to_device_mappings[name]['device'])
UnmapRun(p) ==
    /\ kind = "rbd_map" /\ inv[p].pc = "unmap"
    /\ \E rc \in {0, 1} :
         /\ mapped' = IF rc = 0 THEN mapped \ {inv[p].p.name} ELSE mapped
         /\ Step(p, [sh_out(inv[p], Call("rbd unmap", inv[p].p.name, "", 0),
                            rc, NoText, NoText)
                       EXCEPT !.pc = "relist", !.clean = @ /\ rc = 0])
    /\ UNCHANGED <<kind, pools, tier, images, first>>

\* MapRelist that takes the command to have worked: changed = True
MapRelist_assumed(p) ==
    /\ kind = "rbd_map" /\ inv[p].pc = "relist"
    /\ \E ok \in BOOLEAN :
         LET i == [Issue(inv[p], Call("rbd showmapped", "", "", 0))
                     EXCEPT !.clean = @ /\ ok]
         IN Step(p, IF ~ok THEN Raise(i, "ValueError")
                    ELSE MapFinish([i EXCEPT
                           !.result = Put(@, "rbd_mappings", mapped),
                           !.changed = TRUE]))
    /\ UNCHANGED <<kind, pools, tier, images, mapped, first>>

\* result['rbd_mappings'] = list_mappings() and changed = name [not] in it
MapRelist(p) ==
    /\ kind = "rbd_map" /\ inv[p].pc = "relist"
    /\ \E ok \in BOOLEAN :
         LET i == [Issue(inv[p], Call("rbd showmapped", "", "", 0))
                     EXCEPT !.clean = @ /\ ok]
         IN Step(p, IF ~ok THEN Raise(i, "ValueError")
                    ELSE MapFinish([i EXCEPT
                           !.result = Put(@, "rbd_mappings", mapped),
                           !.changed = IF i.p.state = "present" THEN i.p.name \in mapped
                                       ELSE i.p.name \notin mapped]))
    /\ UNCHANGED <<kind, pools, tier, images, mapped, first>>

\* ------------------------------------- cloud/ceph/ceph.py, ceph/ceph.py
CephParams == {[NoParams EXCEPT !.cmd = c] : c \in {"status", "quorum_status"}}

\* the result document both ceph modules build after their command
CephResult(i, rc) ==
    Put(Put(Put(Put(Put(Put(i.result, "cmd", i.p.cmd), "rc", rc), "start", "t"),
                "end", "t"), "delta", "t"), "changed", TRUE)

\* cloud/ceph/ceph.py: json_command inside try/finally
CephCommand(p) ==
    /\ kind = "ceph" /\ inv[p].pc = "command"
    /\ \E rc \in {0, -2, 2} :
         LET i == [Issue(inv[p], Answered(Call(inv[p].p.cmd, "", "", 0), rc, NoText))
                     EXCEPT !.clean = @ /\ rc = 0]
         IN Step(p, IF rc # 0 THEN shutdown(ErrnoFail(i, rc))
                    ELSE shutdown(exit_json([i EXCEPT !.changed = TRUE,
                                                      !.result = Put(CephResult(i, rc), i.p.cmd, "t")])))
    /\ UNCHANGED <<kind, pools, tier, images, mapped, first>>

\* ceph/ceph.py: module.run_command(cmd), the result, json.loads(out)
CliCephCommand(p) ==
    /\ kind = "ceph_cli" /\ inv[p].pc = "command"
    /\ \E rc \in {0, 1}, parses \in BOOLEAN :
         LET i == [Issue(inv[p], Answered(Call(inv[p].p.cmd, "", "", 0), rc, NoText))
                     EXCEPT !.clean = @ /\ rc = 0,
                            !.result = Put(CephResult(inv[p], rc), "stderr", NoText)]
         IN Step(p, IF ~parses THEN Raise(i, "ValueError")
                    ELSE exit_json([i EXCEPT !.changed = TRUE,
                                             !.result = Put(@, i.p.cmd, "t")]))
    /\ UNCHANGED <<kind, pools, tier, images, mapped, first>>

\* ------------------------------------------------------ an invocation
ParamsOf(k) ==
    CASE k \in {"pool", "pool_cli"} -> PoolParams
      [] k = "tier" -> TierParams
      [] k = "rbd" -> RbdParams
      [] k = "rbd_map" -> MapParams
      [] OTHER -> CephParams

\* the first external call of main()
FirstPc(k) ==
    CASE k \in {"pool", "ceph"} -> "construct"
      [] k \in {"pool_cli", "tier", "rbd"} -> "with"
      [] k = "rbd_map" -> "showmapped"
      [] OTHER -> "command"

\* result as main() first builds it
InitResult(k, prm) ==
    CASE k = "pool" -> Put(Put(Put(<<>>, "name", prm.name), "start", "t"), "changed", FALSE)
      [] k = "tier" -> Put(Put(<<>>, "storage_pool", prm.storage_pool), "cache_pool", prm.cache_pool)
      [] k \in {"pool_cli", "rbd", "rbd_map"} -> Put(<<>>, "name", prm.name)
      [] OTHER -> <<>>

\* Does the resource the parameters name exist in the cluster?
ResourceExists(k, prm) ==
    CASE k \in {"pool", "pool_cli"} -> Exists(pools, prm.name)
      [] k = "tier" -> tier.on
      [] k = "rbd" -> images[pool_for_open_ioctx(prm)] > 0
      [] k = "rbd_map" -> prm.name \in mapped
      [] OTHER -> TRUE

NoFirst == [valid |-> FALSE, outcome |-> NONE, changed |-> FALSE, acted |-> FALSE]

\* the mutating commands an invocation has issued, in order
Mutations(i) == SelectSeq(i.calls, LAMBDA c : c.cmd \in MutatingCmds)
\* the changed flag of the result document
Reported(i) == IF Has(i.result, "changed") THEN i.result["changed"] ELSE FALSE

\* The module is invoked.  `first` remembers the invocation just finished
\* when this one repeats it: same parameters, state=present, begun without
\* the resource, every external call answered with success and the usual
\* text.
Start(p) ==
    /\ inv[p].pc \in {"idle", "done"}
    /\ \E prm \in ParamsOf(kind) :
         /\ inv' = [inv EXCEPT ![p] = [Idle EXCEPT !.p = prm, !.pc = FirstPc(kind),
                                                  !.result = InitResult(kind, prm),
                                                  !.fresh = ~ResourceExists(kind, prm),
                                                  !.was = IF kind \in {"pool", "pool_cli"}
                                                            THEN pools[prm.name] ELSE Absent,
                                                  !.was_size = IF kind = "rbd"
                                                                 THEN images[pool_for_open_ioctx(prm)]
                                                               ELSE 0]]
         /\ first' = [first EXCEPT ![p] =
                        IF /\ inv[p].pc = "done" /\ inv[p].p = prm
                           /\ prm.state = "present" /\ inv[p].fresh /\ inv[p].clean
                          THEN [valid |-> TRUE, outcome |-> inv[p].outcome,
                                changed |-> Reported(inv[p]),
                                acted |-> Mutations(inv[p]) # <<>>]
                        ELSE NoFirst]
    /\ UNCHANGED <<kind, pools, tier, images, mapped>>

\* -------------------------------------------------------- the cluster
Simple == {Absent, [pg |-> 1, pgp |-> 1]}
PoolInits(k) ==
    CASE k = "pool" ->
           {f \in [AllPools -> PoolVals] :
              f[DEFAULT_POOL] = [pg |-> 1, pgp |-> 1] /\ f["hot"] \in Simple}
      [] k \in {"pool_cli", "tier"} ->
           {f \in [AllPools -> Simple] : f[DEFAULT_POOL] = [pg |-> 1, pgp |-> 1]}
      [] k = "rbd" -> {f \in [AllPools -> Simple] : f["hot"] = Absent}
      [] OTHER -> {[n \in AllPools |-> [pg |-> 1, pgp |-> 1]]}
TierInits(k) ==
    IF k = "tier"
      THEN {NoTier} \cup {[on |-> TRUE, mode |-> m, overlay |-> o] :
                            m \in CacheModes \cup {NONE}, o \in BOOLEAN}
    ELSE {NoTier}
ImageInits(k) ==
    IF k = "rbd" THEN [ImagePools -> {z * MB : z \in 0..MaxSizeMB}]
    ELSE {[l \in ImagePools |-> 0]}
MapInits(k) == IF k = "rbd_map" THEN SUBSET ImageNames ELSE {{}}

Init ==
    /\ kind \in Kinds
    /\ pools \in PoolInits(kind)
    /\ tier \in TierInits(kind)
    /\ images \in ImageInits(kind)
    /\ \A l \in ImagePools : images[l] > 0 => Exists(pools, l)
    /\ mapped \in MapInits(kind)
    /\ inv = [p \in Procs |-> Idle]
    /\ first = [p \in Procs |-> NoFirst]

Run(p) ==
    \/ Start(p)
    \/ Construct(p) \/ Connect(p)
    \/ PoolList(p) \/ PoolCreate(p) \/ PoolGet(p) \/ PoolLs(p) \/ PoolSet(p)
    \/ PoolDelete(p)
    \/ WithEnter(p)
    \/ CliPoolList(p) \/ CliPoolCreate(p) \/ CliPoolDelete(p)
    \/ TierList(p) \/ TierAdd(p) \/ TierCacheMode(p) \/ TierSetOverlay(p)
    \/ TierUnsetOverlay(p) \/ TierRemoveOverlay(p) \/ TierRemove(p)
    \/ RbdList(p) \/ RbdCreate(p) \/ RbdResize(p) \/ RbdRemove(p)
    \/ MapList(p) \/ MapRun(p) \/ UnmapRun(p) \/ MapRelist(p)
    \/ CephCommand(p) \/ CliCephCommand(p)

\* invocations one after the other
Next == \E p \in SeqProcs : Run(p)

Spec == Init /\ [][Next]_vars

\* ------------------------------------------- two invocations at once
\* Two orchestration runs invoke a pool module with state=present for the
\* same pool, which does not exist; each process runs one invocation and
\* the steps of the two interleave freely.
RaceParams == {prm \in PoolParams : prm.state = "present" /\ prm.type = "replicated"
                                     /\ prm.ruleset = NONE}
RaceInit == Init /\ kind \in {"pool", "pool_cli"} /\ ~Exists(pools, "cold")
RaceStart(p) == inv[p].pc = "idle" /\ Start(p) /\ inv'[p].p \in RaceParams
RaceRun(p) ==
    \/ RaceStart(p)
    \/ Construct(p) \/ Connect(p)
    \/ PoolList(p) \/ PoolCreate(p) \/ PoolGet(p) \/ PoolLs(p) \/ PoolSet(p)
    \/ WithEnter(p)
    \/ CliPoolList(p) \/ CliPoolCreate(p)
RaceNext == \E p \in Procs : RaceRun(p)
RaceSpec == RaceInit /\ [][RaceNext]_vars

\* =================================================================== claims
ResourceKinds == {"pool", "pool_cli", "tier", "rbd", "rbd_map"}
PoolKinds == {"pool", "pool_cli"}
Cmds(i) == [k \in 1..Len(Mutations(i)) |-> Mutations(i)[k].cmd]
IsPrefix(s, t) == Len(s) <= Len(t) /\ \A k \in 1..Len(s) : s[k] = t[k]

\* C1: for every resource kind, an invocation with state=absent that
\* observed the cluster and whose resource did not exist issues no mutating
\* command and exits normally with changed=false.  (For a cache tier the
\* two pools exist and the tier relationship does not.)
C1_AbsentIsNoop ==
    \A p \in Procs :
      LET i == inv[p] IN
        ( /\ kind \in ResourceKinds /\ i.pc = "done" /\ i.p.state = "absent"
          /\ i.observed /\ i.fresh
          /\ kind = "tier" => {i.p.storage_pool, i.p.cache_pool} \subseteq i.seen )
        => ( /\ i.outcome = "exit"
             /\ Has(i.result, "changed") /\ i.result["changed"] = FALSE
             /\ Mutations(i) = <<>> )

\* C2: for every resource kind, when an invocation with state=present that
\* began without the resource and issued its commands is repeated with the
\* same parameters, every external call of both having succeeded with the
\* usual text, the first reports changed=true and the second changed=false.
C2_PresentTwice ==
    \A p \in Procs :
      LET i == inv[p] IN
        ( /\ kind \in ResourceKinds /\ i.pc = "done"
          /\ first[p].valid /\ first[p].acted /\ i.clean )
        => ( /\ first[p].outcome = "exit" /\ first[p].changed
             /\ i.outcome = "exit"
             /\ Has(i.result, "changed") /\ i.result["changed"] = FALSE )

\* C3: in every module, a call that returned a non-zero status is the last
\* call of its invocation, and the invocation has ended without a normal
\* exit.
C3_NonZeroIsFatal ==
    \A p \in Procs :
      LET i == inv[p] IN
        \A k \in 1..Len(i.calls) :
          i.calls[k].rc # 0 =>
            /\ k = Len(i.calls)
            /\ i.pc = "done" /\ i.outcome \in {"fail", "crash"}

LowPg(i) == i.p.pgnum # 0 /\ i.p.pgnum < i.was.pg
LowPgp(i) == i.p.pgpnum # 0 /\ i.p.pgpnum < i.was.pgp

\* C4: in every pool module, an invocation with state=present on an existing
\* pool that asks for a pgnum or pgpnum below the pool's current value does
\* not exit normally and issues no set command for that attribute.
C4_LowerCountFails ==
    \A p \in Procs :
      LET i == inv[p] IN
        ( /\ kind \in PoolKinds /\ i.pc = "done" /\ i.p.state = "present"
          /\ i.observed /\ ~i.fresh /\ (LowPg(i) \/ LowPgp(i)) )
        => ( /\ i.outcome # "exit"
             /\ \A k \in 1..Len(i.calls) :
                  i.calls[k].cmd = "osd pool set" =>
                    /\ i.calls[k].b = "pg_num" => ~LowPg(i)
                    /\ i.calls[k].b = "pgp_num" => ~LowPgp(i) )

\* C5: every invocation with state=present that supplies no pgnum (pool) or
\* no size (image) ends in a failure result and has issued no command.
C5_MandatoryAttribute ==
    \A p \in Procs :
      LET i == inv[p] IN
        ( /\ i.pc = "done" /\ i.p.state = "present" /\ i.observed
          /\ \/ kind \in PoolKinds /\ i.p.pgnum = 0
             \/ kind = "rbd" /\ i.p.size = 0 )
        => (i.outcome = "fail" /\ Mutations(i) = <<>>)

\* C6: every pool invocation with state=present that supplies ruleset, or
\* selects type=erasure, without pgpnum ends in a failure result and issues
\* neither a pool create nor a pool set.
C6_PgpnumRequired ==
    \A p \in Procs :
      LET i == inv[p] IN
        ( /\ kind \in PoolKinds /\ i.pc = "done" /\ i.p.state = "present"
          /\ i.observed
          /\ i.p.ruleset # NONE \/ i.p.type = "erasure"
          /\ i.p.pgpnum = 0 )
        => ( /\ i.outcome = "fail"
             /\ \A k \in 1..Len(i.calls) :
                  i.calls[k].cmd \notin {"osd pool create", "osd pool set"} )

TierCreation(i) == kind = "tier" /\ i.p.state = "present" /\ i.p.set_overlay
TierOrder == <<"tier add", "tier cache-mode", "tier set-overlay">>
\* the confirmation text of each of the three commands
TierConfirmed(c, prm) ==
    CASE c.cmd = "tier add" ->
           c.rc = 0 /\ c.text = Text("is now (or already was) a tier of", prm.cache_pool, prm.storage_pool, 0)
      [] c.cmd = "tier cache-mode" ->
           c.rc = 0 /\ c.text = Text("set cache_mode for pool", prm.cache_pool, prm.cache_mode, 0)
      [] c.cmd = "tier set-overlay" ->
           c.rc = 0 /\ c.text = Text("overlay is now (or already was)", prm.storage_pool, prm.cache_pool, 0)
      [] OTHER -> FALSE

\* C7: a cache-tier creation with set_overlay issues tier add, cache-mode and
\* set-overlay in that order and nothing else; it stops before the third
\* only after a command whose text was not the confirmation; and its result
\* has changed=true only when all three were issued and confirmed.
C7_TierOrder ==
    \A p \in Procs :
      LET i == inv[p]
          m == Mutations(i)
      IN TierCreation(i) =>
           /\ IsPrefix(Cmds(i), TierOrder)
           /\ \A k \in 1..(Len(m) - 1) : TierConfirmed(m[k], i.p)
           /\ (i.pc = "done" /\ i.outcome = "exit" /\ Len(m) > 0 /\ Len(m) < 3)
                 => ~TierConfirmed(m[Len(m)], i.p)
           /\ (i.pc = "done" /\ i.outcome = "exit" /\ Reported(i))
                 => (Len(m) = 3 /\ \A k \in 1..3 : TierConfirmed(m[k], i.p))
C7_Witness ==
    \E p \in Procs :
      /\ TierCreation(inv[p]) /\ inv[p].pc = "done" /\ inv[p].outcome = "exit"
      /\ Reported(inv[p]) /\ Cmds(inv[p]) = TierOrder

IsResize(c) == c.cmd \in {"rbd resize", "rbd resize --allow-shrink"}
Shrinking(i) ==
    /\ kind = "rbd" /\ i.p.state = "present" /\ i.observed
    /\ i.was_size > 0 /\ i.p.size * MB < i.was_size /\ ~i.p.allow_shrink

\* C8: for an existing image, a state=present invocation whose size in bytes
\* is below the current size, allow_shrink unset, ends in a failure result
\* and never issues a resize.
C8_NoShrinkWithoutFlag ==
    \A p \in Procs :
      LET i == inv[p] IN
        Shrinking(i) =>
          /\ i.pc = "done" /\ i.outcome = "fail"
          /\ \A k \in 1..Len(i.calls) : ~IsResize(i.calls[k])
C8_Witness ==
    \E p \in Procs :
      /\ Shrinking(inv[p]) /\ inv[p].p.size > 0
      /\ inv[p].outcome = "fail" /\ images[pool_for_open_ioctx(inv[p].p)] = inv[p].was_size

AlreadyMapped(i) ==
    /\ kind = "rbd_map" /\ i.p.state = "present" /\ i.observed
    /\ i.p.name \in i.seen

\* C9: an image-mapping invocation with state=present whose image name is in
\* the mapping table it observed issues no map command and exits normally
\* with changed=false.
C9_AlreadyMappedNoop ==
    \A p \in Procs :
      LET i == inv[p] IN
        AlreadyMapped(i) =>
          /\ i.pc = "done" /\ i.outcome = "exit"
          /\ Has(i.result, "changed") /\ i.result["changed"] = FALSE
          /\ Mutations(i) = <<>>
C9_Witness ==
    \E p \in Procs :
      /\ AlreadyMapped(inv[p]) /\ inv[p].outcome = "exit"
      /\ inv[p].p.name \in mapped

\* C10: in every module that opens a cluster client handle, an invocation
\* that has ended and had constructed the handle has released it.
C10_HandleReleased ==
    \A p \in Procs :
      (inv[p].pc = "done" /\ inv[p].handle # NONE) => inv[p].handle = "released"

\* the key(s) under which a module's result names what it acted upon
Identified(k, r) ==
    CASE k = "tier" -> Has(r, "storage_pool") /\ Has(r, "cache_pool")
      [] k \in {"ceph", "ceph_cli"} -> Has(r, "cmd")
      [] OTHER -> Has(r, "name")

\* C11: the result document of every invocation that exited normally holds
\* the identifier acted upon, a boolean changed, a numeric rc, and start,
\* end and delta, whether or not a command was run.
C11_ResultDocument ==
    \A p \in Procs :
      LET i == inv[p] IN
        (i.pc = "done" /\ i.outcome = "exit") =>
          /\ Identified(kind, i.result)
          /\ Has(i.result, "changed") /\ i.result["changed"] \in BOOLEAN
          /\ Has(i.result, "rc") /\ i.result["rc"] \in Int
          /\ Has(i.result, "start") /\ Has(i.result, "end") /\ Has(i.result, "delta")

MissingPool(i) ==
    /\ kind = "tier" /\ i.observed
    /\ ~({i.p.storage_pool, i.p.cache_pool} \subseteq i.seen)

\* C12: a cache-tier invocation, state=present or absent, that observed a
\* pool list without storage_pool or without cache_pool has ended in a
\* failure result and has issued no tier command.
C12_MissingPoolFails ==
    \A p \in Procs :
      LET i == inv[p] IN
        MissingPool(i) =>
          /\ i.pc = "done" /\ i.outcome = "fail"
          /\ \A k \in 1..Len(i.calls) : i.calls[k].cmd \notin MutatingCmds
C12_Witness ==
    \E p \in Procs :
      /\ MissingPool(inv[p]) /\ inv[p].outcome = "fail"
      /\ inv[p].p.storage_pool \in inv[p].seen
      /\ inv[p].calls # <<>>

PermittedResize(i) ==
    /\ kind = "rbd" /\ i.p.state = "present" /\ i.observed
    /\ i.was_size > 0 /\ i.p.size > 0 /\ i.p.size * MB # i.was_size
    /\ (i.p.size * MB > i.was_size \/ i.p.allow_shrink)
Resizes(i) == SelectSeq(i.calls, IsResize)

\* C13: for an existing image, a state=present invocation that has ended and
\* whose size differs from the current one and is permitted (larger, or
\* smaller with allow_shrink) has issued exactly one resize, with
\* --allow-shrink iff allow_shrink is set; and when the tool answered zero
\* and reported the resize as complete, it exited normally with changed=true.
C13_PermittedResize ==
    \A p \in Procs :
      LET i == inv[p] IN
        (PermittedResize(i) /\ i.pc = "done") =>
          /\ Len(Resizes(i)) = 1
          /\ (Resizes(i)[1].cmd = "rbd resize --allow-shrink") <=> i.p.allow_shrink
          /\ (Resizes(i)[1].rc = 0 /\ i.clean)
               => (i.outcome = "exit" /\ Reported(i))

\* the number of steps of a cache-tier flow: add, cache-mode, overlay for
\* state=present; remove-overlay, remove for state=absent
TierSteps(i) == IF i.p.state = "present" THEN 3 ELSE 2

\* C14: a cache-tier invocation that has ended after its first step and
\* before its last one has had a step return a non-zero status: steps that
\* all returned zero never leave the remaining steps skipped.
C14_SkipOnlyOnFatal ==
    \A p \in Procs :
      LET i == inv[p]
          m == Mutations(i)
      IN ( /\ kind = "tier" /\ i.pc = "done"
           /\ Len(m) > 0 /\ Len(m) < TierSteps(i) )
         => \E k \in 1..Len(m) : m[k].rc # 0

\* the command that takes back what a command did
UndoOf(cmd) ==
    CASE cmd = "tier add" -> "tier remove"
      [] cmd = "tier set-overlay" -> "tier remove-overlay"
      [] cmd = "osd pool create" -> "osd pool delete"
      [] cmd = "rbd create" -> "rbd rm"
      [] cmd = "rbd map" -> "rbd unmap"
      [] OTHER -> NONE
\* a cache-tier flow that ended between its first and its last step
StoppedEarly(i) ==
    /\ kind = "tier" /\ i.pc = "done"
    /\ Len(Mutations(i)) > 0 /\ Len(Mutations(i)) < TierSteps(i)

\* C15: no invocation issues, after a command, the command that undoes it;
\* and a cache-tier flow that stopped after some of its steps has exited
\* normally, with what the steps applied still in the cluster: the tier
\* attached when the add returned zero, its cache mode set when the
\* cache-mode returned zero.
C15_NoRollback ==
    \A p \in Procs :
      LET i == inv[p]
          m == Mutations(i)
      IN /\ \A k \in 1..Len(m) : \A l \in (k + 1)..Len(m) :
                m[l].cmd # UndoOf(m[k].cmd)
         /\ StoppedEarly(i) =>
              /\ i.outcome = "exit"
              /\ m[1].rc = 0 => tier.on
              /\ (Len(m) > 1 /\ m[1].rc = 0 /\ m[2].rc = 0) => tier.mode = i.p.cache_mode
C15_Witness ==
    \E p \in Procs :
      /\ StoppedEarly(inv[p]) /\ inv[p].outcome = "exit"
      /\ Cmds(inv[p]) = <<"tier add", "tier cache-mode">>
      /\ TierConfirmed(Mutations(inv[p])[1], inv[p].p)
      /\ ~TierConfirmed(Mutations(inv[p])[2], inv[p].p)
      /\ tier.on

\* the sub-actions whose outcome is read off the diagnostic text
Classified(c) ==
    c.cmd \in {"osd pool create", "osd pool delete", "osd pool set", "tier add",
               "tier cache-mode", "tier set-overlay", "tier remove-overlay",
               "tier remove"}
\* the text of call c is the success message its module expects
Matches(c, i) ==
    CASE c.cmd = "osd pool create" -> c.text = Text("created", i.p.name, "", 0)
      [] c.cmd = "osd pool delete" -> c.text = Text("removed", i.p.name, "", 0)
      [] c.cmd = "osd pool set" ->
           c.text.t = "set pool" /\ c.text.a = PoolNum(i.p.name) /\ c.text.b = c.b
      [] c.cmd = "tier remove-overlay" ->
           c.text = Text("is now (or already was) no overlay for",
                         IF i.p.state = "present" THEN i.p.cache_pool
                         ELSE i.p.storage_pool, "", 0)
      [] c.cmd = "tier remove" ->
           c.text = Text("is now (or already was) not a tier of",
                         i.p.cache_pool, i.p.storage_pool, 0)
      [] OTHER -> TierConfirmed(c, i.p)

\* C16 as stated: an invocation that has ended and ran a text-classified
\* sub-action (pool create, delete, set, tier step) that returned zero with
\* a text other than the expected message has exited normally with
\* changed=false; and changed=true is reported only when the text of a
\* sub-action matched.
C16_TextClassified ==
    \A p \in Procs :
      LET i == inv[p] IN
        i.pc = "done" =>
          /\ \A k \in 1..Len(i.calls) :
               (Classified(i.calls[k]) /\ i.calls[k].rc = 0 /\ ~Matches(i.calls[k], i))
                 => (i.outcome = "exit" /\ ~Reported(i))
          /\ (kind \in {"pool", "pool_cli", "tier"} /\ i.outcome = "exit" /\ Reported(i))
               => \E k \in 1..Len(i.calls) :
                    Classified(i.calls[k]) /\ Matches(i.calls[k], i)

\* C16, amended: a text-classified sub-action that returned zero raises no
\* failure and leaves the changed flag true iff its text matched; an
\* invocation whose last call it is exits normally with that flag.
C16_LastSubAction ==
    \A p \in Procs :
      LET i == inv[p]
          c == i.calls[Len(i.calls)]
      IN (i.calls # <<>> /\ Classified(c) /\ c.rc = 0) =>
           /\ i.outcome \notin {"fail", "crash"}
           /\ i.changed <=> Matches(c, i)
           /\ i.pc = "done" =>
                (i.outcome = "exit" /\ (Reported(i) <=> Matches(c, i)))
C16_Witness ==
    \E p \in Procs :
      LET i == inv[p]
          c == i.calls[Len(i.calls)]
      IN /\ i.calls # <<>> /\ c.cmd = "osd pool set" /\ c.rc = 0
         /\ ~Matches(c, i)
         /\ i.pc = "done" /\ i.outcome = "exit" /\ ~Reported(i)

\* a state=present invocation that saw no pool of its name and whose
\* parameters pass the checks of the create path
SawAbsent(i) ==
    /\ kind \in PoolKinds /\ i.p.state = "present" /\ i.observed
    /\ i.p.name \notin i.seen
    /\ i.p.pgnum # 0
    /\ (i.p.ruleset # NONE \/ i.p.type = "erasure") => i.p.pgpnum # 0
Creates(i) == SelectSeq(i.calls, LAMBDA c : c.cmd = "osd pool create")

\* C17: of two concurrent state=present invocations for the same absent
\* pool, each one that observed the pool as absent goes on to issue the
\* create, or has issued it, whatever the other has done since: nothing is
\* observed again and nothing is locked.
C17_CreateUnguarded ==
    \A p \in Procs :
      LET i == inv[p] IN
        SawAbsent(i) =>
          \/ i.pc = "create" /\ Creates(i) = <<>>
          \/ i.pc = "done" /\ Len(Creates(i)) = 1
\* both observed the pool as absent, both issued the create, and the second
\* create reached a cluster in which the first had already made the pool
C17_Witness ==
    \E p \in Procs, q \in Procs :
      /\ p # q /\ SawAbsent(inv[p]) /\ SawAbsent(inv[q])
      /\ Len(Creates(inv[p])) = 1 /\ Len(Creates(inv[q])) = 1
      /\ Creates(inv[p])[1].text = Text("created", inv[p].p.name, "", 0)
      /\ Creates(inv[q])[1].text = Text("already exists", inv[q].p.name, "", 0)
      /\ inv[p].p.name = inv[q].p.name

\* a modify that ended in the failure result of a count below the current one
LowerCountFailure(i) ==
    /\ kind \in PoolKinds /\ i.p.state = "present" /\ i.observed /\ ~i.fresh
    /\ i.pc = "done" /\ i.outcome = "fail" /\ i.msg = "specified <= current"

\* C18: when a pool modify (state=present on an existing pool) has ended in
\* a failure result because a requested count is below the current one, the
\* pool has the pg_num and pgp_num it had when the invocation began, and
\* the invocation has issued no set.
C18_FailedModifyChangesNothing ==
    \A p \in Procs :
      LET i == inv[p] IN
        LowerCountFailure(i) =>
          /\ pools[i.p.name] = i.was
          /\ \A k \in 1..Len(i.calls) : i.calls[k].cmd # "osd pool set"

Sets(i) == SelectSeq(i.calls, LAMBDA c : c.cmd = "osd pool set")

\* C19: a pool modify that ran both set sub-actions (pg_num, then pgp_num)
\* and exited normally reports changed=true when at least one of the two
\* was confirmed by its text.
C19_ConfirmedChangeReported ==
    \A p \in Procs :
      LET i == inv[p] IN
        ( /\ kind \in PoolKinds /\ i.pc = "done" /\ i.outcome = "exit"
          /\ Len(Sets(i)) > 1
          /\ \E k \in 1..Len(Sets(i)) :
               Sets(i)[k].rc = 0 /\ Matches(Sets(i)[k], i) )
        => Reported(i)

ObservedToExist(i) ==
    /\ kind = "rbd" /\ i.p.state = "absent" /\ i.observed
    /\ i.p.name \in i.seen
Removes(i) == SelectSeq(i.calls, LAMBDA c : c.cmd = "rbd rm")

\* C20: an image invocation with state=absent that observed the image to
\* exist, pool given or not, and has ended has issued exactly one remove,
\* on the pool in which it observed the image; and when the remove returned
\* zero and was reported complete, it exited normally with changed=true.
C20_RemoveObserved ==
    \A p \in Procs :
      LET i == inv[p] IN
        (ObservedToExist(i) /\ i.pc = "done") =>
          /\ Len(Removes(i)) = 1
          /\ CmdPool(Removes(i)[1]) = pool_for_open_ioctx(i.p)
          /\ (Removes(i)[1].rc = 0 /\ i.clean)
               => (i.outcome = "exit" /\ Reported(i))

\* the mapping table shows the state the invocation asked for
ShowsRequested(i, table) ==
    IF i.p.state = "present" THEN i.p.name \in table ELSE i.p.name \notin table

\* C21: an image-mapping invocation issues at most one command, a map when
\* state=present and the name is not in the table it observed, an unmap when
\* state=absent and the name is in it; once it has ended after a command, its
\* last call is a listing of the table made after the command; and when it
\* then exited normally, changed is true iff the table it listed again shows
\* the requested state, whatever the command returned.
C21_MapReobserved ==
    \A p \in Procs :
      LET i == inv[p]
          m == Mutations(i)
      IN kind = "rbd_map" =>
           /\ Len(m) <= 1
           /\ m # <<>> =>
                /\ i.observed /\ ~ShowsRequested(i, i.seen)
                /\ m[1].cmd = IF i.p.state = "present" THEN "rbd map" ELSE "rbd unmap"
           /\ (m # <<>> /\ i.pc = "done") =>
                /\ Len(i.calls) = 3
                /\ i.calls[2] = m[1] /\ i.calls[3].cmd = "rbd showmapped"
                /\ i.outcome = "exit" =>
                     /\ Has(i.result, "rbd_mappings")
                     /\ i.result["rbd_mappings"] = mapped
                     /\ Reported(i) <=> ShowsRequested(i, i.result["rbd_mappings"])
C21_Witness ==
    \E p \in Procs :
      LET i == inv[p] IN
        /\ kind = "rbd_map" /\ i.pc = "done" /\ i.outcome = "exit"
        /\ i.p.state = "absent" /\ i.p.name \in i.seen
        /\ Cmds(i) = <<"rbd unmap">>
        /\ Has(i.result, "rbd_mappings") /\ i.p.name \notin i.result["rbd_mappings"]
        /\ Reported(i)

====
